---- MODULE Spec2Model ----
(***************************************************************************)
(* Model of the two scripts of the repository:                             *)
(*   src/error_hashes.py  - prints the 4-byte selector of every error      *)
(*                          signature of a list;                           *)
(*   src/router/inch.py   - validates a swap request read from a JSON      *)
(*                          file, issues one GET to the 1inch router and   *)
(*                          prints the tx.data payload of the response.    *)
(* Text is a sequence of Unicode code points, a byte string a sequence of  *)
(* numbers 0..255.                                                         *)
(***************************************************************************)
EXTENDS Integers, Sequences, FiniteSets, TLC

VARIABLES
    \* ---- src/error_hashes.py
    error_signatures,   \* the list of declarations (line 4)
    it,                 \* how many elements the for loop has taken (line 50)
    signature,          \* loop variable (line 50)
    hash_bytes,         \* line 51
    selector,           \* line 52
    stdout,             \* the lines printed so far (line 53)
    pc,                 \* position in the script
    \* ---- src/router/inch.py
    args_output,        \* args.output (line 13)
    json_file,          \* content of the file args.json_data_file names
    data,               \* line 18
    params,             \* line 52
    requests_sent,      \* the GETs issued so far (line 54)
    response,           \* line 54
    out_file,           \* content of the file args.output names
    inch_stdout,        \* what the script printed (line 58)
    exc,                \* the exception that ended the script, if any
    ipc                 \* position in the script

hashVars == <<error_signatures, it, signature, hash_bytes, selector, stdout, pc>>

inchVars == <<args_output, json_file, data, params, requests_sent, response,
              out_file, inch_stdout, exc, ipc>>

vars == <<error_signatures, it, signature, hash_bytes, selector, stdout, pc,
          args_output, json_file, data, params, requests_sent, response,
          out_file, inch_stdout, exc, ipc>>

\* ------------------------------------------------------------------ bounds
\* Longest list of declarations, longest declaration (in characters).
MaxSigs == 2
MaxLen == 2

\* The characters declarations are drawn from: "Z" (one byte in UTF-8) and
\* U+00E9 (two bytes in UTF-8).
Alphabet == {90, 233}

SeqsUpTo(S, n) == UNION {[1..k -> S] : k \in 0..n}

Declarations == SeqsUpTo(Alphabet, MaxLen)

\* ------------------------------------------------------- text and bytes
Min(a, b) == IF a < b THEN a ELSE b

\* str.encode("utf-8") of one code point.
EncodeChar(cp) ==
    IF cp < 128 THEN <<cp>>
    ELSE IF cp < 2048 THEN <<192 + (cp \div 64), 128 + (cp % 64)>>
    ELSE IF cp < 65536
         THEN <<224 + (cp \div 4096), 128 + ((cp \div 64) % 64), 128 + (cp % 64)>>
    ELSE <<240 + (cp \div 262144), 128 + ((cp \div 4096) % 64),
           128 + ((cp \div 64) % 64), 128 + (cp % 64)>>

\* keccak(text=...) hashes the UTF-8 encoding of the text.
\* (The characters lo..hi of s, encoded; the range is halved so that the
\* evaluation's depth stays logarithmic in the length of the text.)
RECURSIVE EncodeRange(_, _, _)
EncodeRange(s, lo, hi) ==
    IF lo > hi THEN <<>>
    ELSE IF lo = hi THEN EncodeChar(s[lo])
    ELSE EncodeRange(s, lo, (lo + hi) \div 2) \o EncodeRange(s, (lo + hi) \div 2 + 1, hi)

EncodeText(s) == EncodeRange(s, 1, Len(s))

\* The hash primitive is a library function (eth_utils.keccak), not code of
\* the repository.  It is modelled by what the script relies on: a total,
\* stateless function from byte strings to 32 bytes.  The digest is a
\* stand-in (a position-weighted sum of the input, spread over 32
\* positions), not Keccak-256: no statement below depends on concrete digest
\* values.
HashWidth == 32

\* The weighted sum of bytes lo..hi, the range halved as in EncodeRange.
RECURSIVE Absorb(_, _, _)
Absorb(bytes, lo, hi) ==
    IF lo > hi THEN 0
    ELSE IF lo = hi THEN ((bytes[lo] + 1) * (lo * lo + 7 * lo + 13)) % 65521
    ELSE (Absorb(bytes, lo, (lo + hi) \div 2)
          + Absorb(bytes, (lo + hi) \div 2 + 1, hi)) % 65521

keccak(bytes) ==
    LET st == (40503 + 131 * Len(bytes) + Absorb(bytes, 1, Len(bytes))) % 65521
    IN  [k \in 1..HashWidth |-> ((st + k) * (2 * k + 1) + (st \div 256) * k * k) % 256]

\* line 52: the selector is the first 4 bytes of the hash.
SelectorBytes == 4

\* bytes[:n]
SliceTo(bytes, n) == SubSeq(bytes, 1, Min(n, Len(bytes)))

\* bytes.hex(): two lowercase hexadecimal digits per byte, high nibble first.
HexDigit(n) == IF n < 10 THEN 48 + n ELSE 87 + n

RECURSIVE Hex(_)
Hex(bytes) ==
    IF bytes = <<>> THEN <<>>
    ELSE <<HexDigit(Head(bytes) \div 16), HexDigit(Head(bytes) % 16)>> \o Hex(Tail(bytes))

\* f"{signature}: 0x{selector}"
FormatLine(sig, sel) == sig \o <<58, 32, 48, 120>> \o sel

\* ------------------------------------------------- JSON values
\* A JSON value is [kind, items]: items is a set of <<path, leaf>>, the path
\* the keys (or indices) leading to a scalar leaf.  kind is "object",
\* "array" or "scalar"; a scalar's only item has the empty path.
Obj(items) == [kind |-> "object", items |-> items]
Arr(items) == [kind |-> "array", items |-> items]
Scalar(leaf) == [kind |-> "scalar", items |-> {<<<<>>, leaf>>}]

\* A text (a file's content, a response body) is [json, fmt, value]: whether
\* it parses as JSON, how its JSON is laid out, the value it denotes.
\* Raw(t) is the text t that is not JSON; Absent stands for no text at all
\* (a file that does not exist or was not written, no response yet);
\* Failure(e) for the request ending in the exception e.
JsonText(fmt, value) == [json |-> TRUE, fmt |-> fmt, value |-> value]
Raw(t) == [json |-> FALSE, fmt |-> "raw", value |-> Scalar(t)]
Absent == [json |-> FALSE, fmt |-> "absent", value |-> Scalar("")]
Failure(e) == [json |-> FALSE, fmt |-> "failure", value |-> Scalar(e)]

\* json.loads / response.json(): the layout is lost.
Parses(text) == text.json
Loads(text) == text.value

\* json.dump with its default separators.
Dump(value) == JsonText("default", value)

\* bool(value)
Truthy(v) ==
    IF v.kind = "scalar" THEN v.items \cap {<<<<>>, l>> : l \in {"null", "0", "false", ""}} = {}
    ELSE v.items # {}

\* key in value: a dict's keys, a list's elements; a number or null is not
\* iterable.
Iterable(v) == v.kind # "scalar"
Contains(v, key) ==
    IF v.kind = "object" THEN \E i \in v.items : i[1] # <<>> /\ Head(i[1]) = key
    ELSE \E i \in v.items : i[2] = key

\* value[key], for a key that is a string
Subscriptable(v) == v.kind = "object"
Subscript(v, key) ==
    LET under == {i \in v.items : i[1] # <<>> /\ Head(i[1]) = key}
        rest == {<<Tail(i[1]), i[2]>> : i \in under}
    IN  IF \E i \in rest : i[1] = <<>>
        THEN [kind |-> "scalar", items |-> rest]
        ELSE Obj(rest)

LeafOf(v) == (CHOOSE i \in v.items : i[1] = <<>>)[2]

\* str(value), what print writes: a JSON string's own characters.
StrOf(v) == IF v.kind = "scalar" THEN LeafOf(v) ELSE "<repr of a container>"

\* The outcome of value[key]: the exception it raises, "" when it raises none.
SubscriptError(v, key) ==
    IF ~Subscriptable(v) THEN "TypeError"
    ELSE IF ~Contains(v, key) THEN "KeyError"
    ELSE ""

\* ------------------------------------------------- src/error_hashes.py
\* lines 4-47: the list of the source, each signature as its code points.
SourceSignatures == <<
    \* ZeroShares()
    <<
        90, 101, 114, 111, 83, 104, 97, 114, 101, 115, 40, 41 >>,
    \* RequestNotExecuted()
    <<
        82, 101, 113, 117, 101, 115, 116, 78, 111, 116, 69, 120, 101, 99, 117,
        116, 101, 100, 40, 41 >>,
    \* RequestAlreadyClaimed()
    <<
        82, 101, 113, 117, 101, 115, 116, 65, 108, 114, 101, 97, 100, 121, 67,
        108, 97, 105, 109, 101, 100, 40, 41 >>,
    \* UnauthorizedClaimer(address,address)
    <<
        85, 110, 97, 117, 116, 104, 111, 114, 105, 122, 101, 100, 67, 108, 97,
        105, 109, 101, 114, 40, 97, 100, 100, 114, 101, 115, 115, 44, 97, 100,
        100, 114, 101, 115, 115, 41 >>,
    \* InchSwapInvailidTokens()
    <<
        73, 110, 99, 104, 83, 119, 97, 112, 73, 110, 118, 97, 105, 108, 105,
        100, 84, 111, 107, 101, 110, 115, 40, 41 >>,
    \* InchSwapAmountExceedsBalance(uint256,uint256)
    <<
        73, 110, 99, 104, 83, 119, 97, 112, 65, 109, 111, 117, 110, 116, 69,
        120, 99, 101, 101, 100, 115, 66, 97, 108, 97, 110, 99, 101, 40, 117,
        105, 110, 116, 50, 53, 54, 44, 117, 105, 110, 116, 50, 53, 54, 41 >>,
    \* InchInvalidReceiver()
    <<
        73, 110, 99, 104, 73, 110, 118, 97, 108, 105, 100, 82, 101, 99, 101,
        105, 118, 101, 114, 40, 41 >>,
    \* InchInvalidAmount(uint256,uint256)
    <<
        73, 110, 99, 104, 73, 110, 118, 97, 108, 105, 100, 65, 109, 111, 117,
        110, 116, 40, 117, 105, 110, 116, 50, 53, 54, 44, 117, 105, 110, 116,
        50, 53, 54, 41 >>,
    \* IncosistentParamsLength()
    <<
        73, 110, 99, 111, 115, 105, 115, 116, 101, 110, 116, 80, 97, 114, 97,
        109, 115, 76, 101, 110, 103, 116, 104, 40, 41 >>,
    \* CallerNotFactory()
    <<
        67, 97, 108, 108, 101, 114, 78, 111, 116, 70, 97, 99, 116, 111, 114,
        121, 40, 41 >>,
    \* CallerNotStrategy()
    <<
        67, 97, 108, 108, 101, 114, 78, 111, 116, 83, 116, 114, 97, 116, 101,
        103, 121, 40, 41 >>,
    \* CallerNotKeeper()
    <<
        67, 97, 108, 108, 101, 114, 78, 111, 116, 75, 101, 101, 112, 101, 114,
        40, 41 >>,
    \* InvalidMarket()
    <<
        73, 110, 118, 97, 108, 105, 100, 77, 97, 114, 107, 101, 116, 40, 41 >>,
    \* InvalidInitializationAssets()
    <<
        73, 110, 118, 97, 108, 105, 100, 73, 110, 105, 116, 105, 97, 108, 105,
        122, 97, 116, 105, 111, 110, 65, 115, 115, 101, 116, 115, 40, 41 >>,
    \* CallbackNotAllowed()
    <<
        67, 97, 108, 108, 98, 97, 99, 107, 78, 111, 116, 65, 108, 108, 111,
        119, 101, 100, 40, 41 >>,
    \* ZeroAddress()
    <<
        90, 101, 114, 111, 65, 100, 100, 114, 101, 115, 115, 40, 41 >>,
    \* ArrayLengthMissmatch()
    <<
        65, 114, 114, 97, 121, 76, 101, 110, 103, 116, 104, 77, 105, 115, 115,
        109, 97, 116, 99, 104, 40, 41 >>,
    \* AlreadyPending()
    <<
        65, 108, 114, 101, 97, 100, 121, 80, 101, 110, 100, 105, 110, 103, 40,
        41 >>,
    \* InvalidFeedPrice(address,int256)
    <<
        73, 110, 118, 97, 108, 105, 100, 70, 101, 101, 100, 80, 114, 105, 99,
        101, 40, 97, 100, 100, 114, 101, 115, 115, 44, 105, 110, 116, 50, 53,
        54, 41 >>,
    \* PriceFeedNotUpdated(address,uint256,uint256)
    <<
        80, 114, 105, 99, 101, 70, 101, 101, 100, 78, 111, 116, 85, 112, 100,
        97, 116, 101, 100, 40, 97, 100, 100, 114, 101, 115, 115, 44, 117, 105,
        110, 116, 50, 53, 54, 44, 117, 105, 110, 116, 50, 53, 54, 41 >>,
    \* PriceFeedNotConfigured()
    <<
        80, 114, 105, 99, 101, 70, 101, 101, 100, 78, 111, 116, 67, 111, 110,
        102, 105, 103, 117, 114, 101, 100, 40, 41 >>,
    \* EmptyPriceFeedMultiplier(address)
    <<
        69, 109, 112, 116, 121, 80, 114, 105, 99, 101, 70, 101, 101, 100, 77,
        117, 108, 116, 105, 112, 108, 105, 101, 114, 40, 97, 100, 100, 114,
        101, 115, 115, 41 >>,
    \* InsufficientExecutionFee(uint256,uint256)
    <<
        73, 110, 115, 117, 102, 102, 105, 99, 105, 101, 110, 116, 69, 120,
        101, 99, 117, 116, 105, 111, 110, 70, 101, 101, 40, 117, 105, 110,
        116, 50, 53, 54, 44, 117, 105, 110, 116, 50, 53, 54, 41 >>,
    \* OracleInvalidPrice()
    <<
        79, 114, 97, 99, 108, 101, 73, 110, 118, 97, 108, 105, 100, 80, 114,
        105, 99, 101, 40, 41 >>,
    \* InsufficientIdleBalanceForUtilize(uint256,uint256)
    <<
        73, 110, 115, 117, 102, 102, 105, 99, 105, 101, 110, 116, 73, 100,
        108, 101, 66, 97, 108, 97, 110, 99, 101, 70, 111, 114, 85, 116, 105,
        108, 105, 122, 101, 40, 117, 105, 110, 116, 50, 53, 54, 44, 117, 105,
        110, 116, 50, 53, 54, 41 >>,
    \* InsufficientProdcutBalanceForDeutilize(uint256,uint256)
    <<
        73, 110, 115, 117, 102, 102, 105, 99, 105, 101, 110, 116, 80, 114,
        111, 100, 99, 117, 116, 66, 97, 108, 97, 110, 99, 101, 70, 111, 114,
        68, 101, 117, 116, 105, 108, 105, 122, 101, 40, 117, 105, 110, 116,
        50, 53, 54, 44, 117, 105, 110, 116, 50, 53, 54, 41 >>,
    \* UnsupportedSwapType()
    <<
        85, 110, 115, 117, 112, 112, 111, 114, 116, 101, 100, 83, 119, 97,
        112, 84, 121, 112, 101, 40, 41 >>,
    \* UnAuthorizedForwarder(address)
    <<
        85, 110, 65, 117, 116, 104, 111, 114, 105, 122, 101, 100, 70, 111,
        114, 119, 97, 114, 100, 101, 114, 40, 97, 100, 100, 114, 101, 115,
        115, 41 >>,
    \* NotPositivePnl()
    <<
        78, 111, 116, 80, 111, 115, 105, 116, 105, 118, 101, 80, 110, 108, 40,
        41 >>,
    \* ActiveRequestIsNotClosed(bytes32)
    <<
        65, 99, 116, 105, 118, 101, 82, 101, 113, 117, 101, 115, 116, 73, 115,
        78, 111, 116, 67, 108, 111, 115, 101, 100, 40, 98, 121, 116, 101, 115,
        51, 50, 41 >>,
    \* StatusNotIdle()
    <<
        83, 116, 97, 116, 117, 115, 78, 111, 116, 73, 100, 108, 101, 40, 41 >>,
    \* ZeroPendingUtilization()
    <<
        90, 101, 114, 111, 80, 101, 110, 100, 105, 110, 103, 85, 116, 105,
        108, 105, 122, 97, 116, 105, 111, 110, 40, 41 >>,
    \* ZeroAmountUtilization()
    <<
        90, 101, 114, 111, 65, 109, 111, 117, 110, 116, 85, 116, 105, 108,
        105, 122, 97, 116, 105, 111, 110, 40, 41 >>,
    \* CallerNotPositionManager()
    <<
        67, 97, 108, 108, 101, 114, 78, 111, 116, 80, 111, 115, 105, 116, 105,
        111, 110, 77, 97, 110, 97, 103, 101, 114, 40, 41 >>,
    \* CallerNotAgent()
    <<
        67, 97, 108, 108, 101, 114, 78, 111, 116, 65, 103, 101, 110, 116, 40,
        41 >>,
    \* InvalidRequestId(bytes32,bytes32)
    <<
        73, 110, 118, 97, 108, 105, 100, 82, 101, 113, 117, 101, 115, 116, 73,
        100, 40, 98, 121, 116, 101, 115, 51, 50, 44, 98, 121, 116, 101, 115,
        51, 50, 41 >>,
    \* InvalidCallback()
    <<
        73, 110, 118, 97, 108, 105, 100, 67, 97, 108, 108, 98, 97, 99, 107,
        40, 41 >>,
    \* InvalidActiveRequestType()
    <<
        73, 110, 118, 97, 108, 105, 100, 65, 99, 116, 105, 118, 101, 82, 101,
        113, 117, 101, 115, 116, 84, 121, 112, 101, 40, 41 >>,
    \* InsufficientCollateralBalance(uint256,uint256)
    <<
        73, 110, 115, 117, 102, 102, 105, 99, 105, 101, 110, 116, 67, 111,
        108, 108, 97, 116, 101, 114, 97, 108, 66, 97, 108, 97, 110, 99, 101,
        40, 117, 105, 110, 116, 50, 53, 54, 44, 117, 105, 110, 116, 50, 53,
        54, 41 >>,
    \* NoActiveRequests()
    <<
        78, 111, 65, 99, 116, 105, 118, 101, 82, 101, 113, 117, 101, 115, 116,
        115, 40, 41 >>,
    \* CallerNotOperator()
    <<
        67, 97, 108, 108, 101, 114, 78, 111, 116, 79, 112, 101, 114, 97, 116,
        111, 114, 40, 41 >>,
    \* InvalidStrategyStatus(uint8)
    <<
        73, 110, 118, 97, 108, 105, 100, 83, 116, 114, 97, 116, 101, 103, 121,
        83, 116, 97, 116, 117, 115, 40, 117, 105, 110, 116, 56, 41 >>
>>

NoExc == <<"", "">>

\* src/router/inch.py is not running.
InchIdle ==
    /\ args_output = "None"
    /\ json_file = Absent
    /\ data = Scalar("")
    /\ params = {}
    /\ requests_sent = <<>>
    /\ response = Absent
    /\ out_file = Absent
    /\ inch_stdout = <<>>
    /\ exc = NoExc
    /\ ipc = "off"

\* The list of the source, and every list of at most MaxSigs declarations.
SignatureLists == {SourceSignatures} \cup SeqsUpTo(Declarations, MaxSigs)

Init ==
    /\ error_signatures \in SignatureLists
    /\ it = 0
    /\ signature = <<>>
    /\ hash_bytes = <<>>
    /\ selector = <<>>
    /\ stdout = <<>>
    /\ pc = "for"
    /\ InchIdle

\* Mutant of ForNext: a declaration that already occurred is skipped.
ForNextDedup ==
    /\ pc = "for"
    /\ it < Len(error_signatures)
    /\ it' = it + 1
    /\ IF \E j \in 1..it : error_signatures[j] = error_signatures[it + 1]
       THEN pc' = "for" /\ UNCHANGED signature
       ELSE signature' = error_signatures[it + 1] /\ pc' = "keccak"
    /\ UNCHANGED <<error_signatures, hash_bytes, selector, stdout>>
    /\ UNCHANGED inchVars

\* line 50: the for statement takes the next element ...
ForNext ==
    /\ pc = "for"
    /\ it < Len(error_signatures)
    /\ signature' = error_signatures[it + 1]
    /\ it' = it + 1
    /\ pc' = "keccak"
    /\ UNCHANGED <<error_signatures, hash_bytes, selector, stdout>>
    /\ UNCHANGED inchVars

\* Mutant of ForExit: an empty list is an error.
ForExitRejectsEmpty ==
    /\ pc = "for"
    /\ it >= Len(error_signatures)
    /\ pc' = IF error_signatures = <<>> THEN "raise" ELSE "exit"
    /\ UNCHANGED <<error_signatures, it, signature, hash_bytes, selector, stdout>>
    /\ UNCHANGED inchVars

\* ... or the list is exhausted and the script ends.
ForExit ==
    /\ pc = "for"
    /\ it >= Len(error_signatures)
    /\ pc' = "exit"
    /\ UNCHANGED <<error_signatures, it, signature, hash_bytes, selector, stdout>>
    /\ UNCHANGED inchVars

\* Mutant of Keccak: the hasher is not reset, the previous digest is hashed
\* along with the declaration.
KeccakCarriesState ==
    /\ pc = "keccak"
    /\ hash_bytes' = keccak(hash_bytes \o EncodeText(signature))
    /\ pc' = "slice"
    /\ UNCHANGED <<error_signatures, it, signature, selector, stdout>>
    /\ UNCHANGED inchVars

\* Mutant of Keccak: the empty declaration is refused.
KeccakRejectsEmpty ==
    /\ pc = "keccak"
    /\ IF signature = <<>>
       THEN pc' = "raise" /\ UNCHANGED hash_bytes
       ELSE hash_bytes' = keccak(EncodeText(signature)) /\ pc' = "slice"
    /\ UNCHANGED <<error_signatures, it, signature, selector, stdout>>
    /\ UNCHANGED inchVars

\* line 51: hash_bytes = keccak(text=signature)
Keccak ==
    /\ pc = "keccak"
    /\ hash_bytes' = keccak(EncodeText(signature))
    /\ pc' = "slice"
    /\ UNCHANGED <<error_signatures, it, signature, selector, stdout>>
    /\ UNCHANGED inchVars

RECURSIVE Reverse(_)
Reverse(s) == IF s = <<>> THEN <<>> ELSE Append(Reverse(Tail(s)), Head(s))

\* Mutant of SelectorHex: the four bytes are taken in reverse order.
SelectorHexReversed ==
    /\ pc = "slice"
    /\ selector' = Hex(Reverse(SliceTo(hash_bytes, SelectorBytes)))
    /\ pc' = "print"
    /\ UNCHANGED <<error_signatures, it, signature, hash_bytes, stdout>>
    /\ UNCHANGED inchVars

\* line 52: selector = hash_bytes[:4].hex()
SelectorHex ==
    /\ pc = "slice"
    /\ selector' = Hex(SliceTo(hash_bytes, SelectorBytes))
    /\ pc' = "print"
    /\ UNCHANGED <<error_signatures, it, signature, hash_bytes, stdout>>
    /\ UNCHANGED inchVars

\* Mutant of PrintLine: the report is built newest first.
PrintLineFirst ==
    /\ pc = "print"
    /\ stdout' = <<FormatLine(signature, selector)>> \o stdout
    /\ pc' = "for"
    /\ UNCHANGED <<error_signatures, it, signature, hash_bytes, selector>>
    /\ UNCHANGED inchVars

\* line 53: print(f"{signature}: 0x{selector}")
PrintLine ==
    /\ pc = "print"
    /\ stdout' = Append(stdout, FormatLine(signature, selector))
    /\ pc' = "for"
    /\ UNCHANGED <<error_signatures, it, signature, hash_bytes, selector>>
    /\ UNCHANGED inchVars

Next == ForNext \/ ForExit \/ Keccak \/ SelectorHex \/ PrintLine

Spec == Init /\ [][Next]_vars

\* ------------------------------------------------- src/router/inch.py
\* line 6
apiUrl == "https://api.1inch.dev/swap/v6.0/42161/swap"

\* lines 22-31, 40-44: the required fields, in the order they are checked.
RequiredFields == <<"src", "dst", "amount", "from", "slippage">>
FieldSet == {RequiredFields[i] : i \in 1..Len(RequiredFields)}

\* The value each key of a request file carries, one key not required among
\* them.
FieldValue ==
    [k \in FieldSet \cup {"protocols"} |->
        CASE k = "src" -> "0xTokenIn"
          [] k = "dst" -> "0xTokenOut"
          [] k = "amount" -> "1000"
          [] k = "from" -> "0xSender"
          [] k = "slippage" -> "1"
          [] OTHER -> "UNISWAP"]

\* What the file args.json_data_file names may hold: nothing (no such file),
\* text that is not JSON, an object with any of the keys, a list of any of
\* the field names, null or a number.
RequestValues ==
    {Obj({<<<<k>>, FieldValue[k]>> : k \in K}) : K \in SUBSET DOMAIN FieldValue}
    \cup {Arr({<<<<k>>, k>> : k \in K}) : K \in SUBSET FieldSet}
    \cup {Scalar("null"), Scalar("0"), Scalar("7")}

RequestFiles ==
    {Absent, Raw("{src:")} \cup {JsonText("compact", v) : v \in RequestValues}

\* args.output: not given, empty, a path that can be written, one that cannot.
OutputArgs == {"None", "", "out.json", "/nodir/out.json"}
OutputRequested == args_output \notin {"None", ""}
Writable(path) == path = "out.json"

\* What the GET may end in: an exception of requests, or a response whose
\* body is a quote, an error body, a body with a tx without data, with a null
\* tx, the body null, or text that is not JSON.
Payloads == {"0xaa", "0xbb"}

ResponseValues ==
    {Obj({<<<<"tx", "data">>, p>>, <<<<"tx", "to">>, "0xRouter">>, <<<<"dstAmount">>, "5">>}) :
        p \in Payloads}
    \cup {Obj({<<<<"error">>, "Bad Request">>, <<<<"statusCode">>, "400">>}),
          Obj({<<<<"tx", "to">>, "0xRouter">>}),
          Obj({<<<<"tx">>, "null">>}),
          Scalar("null")}

UpstreamOutcomes ==
    {Failure("ConnectionError"), Raw("<html>")}
    \cup {JsonText(f, v) : f \in {"compact", "default"}, v \in ResponseValues}

\* src/error_hashes.py is not running.
HashIdle ==
    /\ error_signatures = <<>>
    /\ it = 0
    /\ signature = <<>>
    /\ hash_bytes = <<>>
    /\ selector = <<>>
    /\ stdout = <<>>
    /\ pc = "off"

\* lines 11-15: the arguments are parsed; nothing else has happened.
InitInch ==
    /\ args_output \in OutputArgs
    /\ json_file \in RequestFiles
    /\ data = Scalar("")
    /\ params = {}
    /\ requests_sent = <<>>
    /\ response = Absent
    /\ out_file = Absent
    /\ inch_stdout = <<>>
    /\ exc = NoExc
    /\ ipc = "load"
    /\ HashIdle

\* An uncaught exception ends the script.
Raise(type, detail) ==
    /\ exc' = <<type, detail>>
    /\ ipc' = "error"

\* lines 17-18: with open(...) as f: data = json.loads(f.read())
LoadJson ==
    /\ ipc = "load"
    /\ IF json_file = Absent
       THEN Raise("FileNotFoundError", "") /\ UNCHANGED data
       ELSE IF ~Parses(json_file)
       THEN Raise("JSONDecodeError", "") /\ UNCHANGED data
       ELSE data' = Loads(json_file) /\ ipc' = "validate" /\ UNCHANGED exc
    /\ UNCHANGED <<args_output, json_file, params, requests_sent, response,
                   out_file, inch_stdout>>
    /\ UNCHANGED hashVars

\* lines 22-31: the first required field that is not in data, "" when all
\* are; "in" raises TypeError on a value that is not iterable.
RECURSIVE FirstMissing(_, _)
FirstMissing(d, i) ==
    IF i > Len(RequiredFields) THEN ""
    ELSE IF ~Contains(d, RequiredFields[i]) THEN RequiredFields[i]
    ELSE FirstMissing(d, i + 1)

\* Mutant of Validate: a missing slippage is filled in instead of refused.
ValidateDefaultsSlippage ==
    /\ ipc = "validate"
    /\ IF ~Truthy(data) THEN Raise("ValueError", "Invalid json data") /\ UNCHANGED data
       ELSE IF ~Iterable(data) THEN Raise("TypeError", "") /\ UNCHANGED data
       ELSE IF FirstMissing(data, 1) \notin {"", "slippage"}
       THEN Raise("ValueError", FirstMissing(data, 1)) /\ UNCHANGED data
       ELSE /\ data' = IF data.kind = "object" /\ ~Contains(data, "slippage")
                       THEN Obj(data.items \cup {<<<<"slippage">>, "1">>})
                       ELSE data
            /\ ipc' = "build"
            /\ UNCHANGED exc
    /\ UNCHANGED <<args_output, json_file, params, requests_sent, response,
                   out_file, inch_stdout>>
    /\ UNCHANGED hashVars

\* lines 20-31
Validate ==
    /\ ipc = "validate"
    /\ IF ~Truthy(data) THEN Raise("ValueError", "Invalid json data")
       ELSE IF ~Iterable(data) THEN Raise("TypeError", "")
       ELSE IF FirstMissing(data, 1) # ""
       THEN Raise("ValueError", FirstMissing(data, 1))
       ELSE ipc' = "build" /\ UNCHANGED exc
    /\ UNCHANGED <<args_output, json_file, data, params, requests_sent, response,
                   out_file, inch_stdout>>
    /\ UNCHANGED hashVars

\* lines 40-44: the exception the first failing data[field] raises, "" when
\* none does.
RECURSIVE FirstSubscriptError(_, _)
FirstSubscriptError(d, i) ==
    IF i > Len(RequiredFields) THEN ""
    ELSE IF SubscriptError(d, RequiredFields[i]) # ""
    THEN SubscriptError(d, RequiredFields[i])
    ELSE FirstSubscriptError(d, i + 1)

\* lines 34-52: requestOptions, and headers, body and params taken from it.
BuildRequest ==
    /\ ipc = "build"
    /\ IF FirstSubscriptError(data, 1) # ""
       THEN Raise(FirstSubscriptError(data, 1), "") /\ UNCHANGED params
       ELSE /\ params' = {<<k, Subscript(data, k)>> : k \in FieldSet}
                           \cup {<<"disableEstimate", Scalar("true")>>}
            /\ ipc' = "get"
            /\ UNCHANGED exc
    /\ UNCHANGED <<args_output, json_file, data, requests_sent, response,
                   out_file, inch_stdout>>
    /\ UNCHANGED hashVars

\* Mutant of Get: a failed request is sent once more.
GetRetries ==
    /\ ipc = "get"
    /\ \E r \in UpstreamOutcomes :
          IF r.fmt = "failure"
          THEN /\ requests_sent' = requests_sent \o
                     << [url |-> apiUrl, auth |-> "Bearer <API_KEY>", params |-> params],
                        [url |-> apiUrl, auth |-> "Bearer <API_KEY>", params |-> params] >>
               /\ Raise(LeafOf(r.value), "")
               /\ UNCHANGED response
          ELSE /\ requests_sent' = Append(requests_sent,
                     [url |-> apiUrl, auth |-> "Bearer <API_KEY>", params |-> params])
               /\ response' = r
               /\ ipc' = "output"
               /\ UNCHANGED exc
    /\ UNCHANGED <<args_output, json_file, data, params, out_file, inch_stdout>>
    /\ UNCHANGED hashVars

\* line 54: response = requests.get(apiUrl, headers=headers, params=params)
Get ==
    /\ ipc = "get"
    /\ requests_sent' = Append(requests_sent,
                               [url |-> apiUrl, auth |-> "Bearer <API_KEY>", params |-> params])
    /\ \E r \in UpstreamOutcomes :
          IF r.fmt = "failure"
          THEN Raise(LeafOf(r.value), "") /\ UNCHANGED response
          ELSE response' = r /\ ipc' = "output" /\ UNCHANGED exc
    /\ UNCHANGED <<args_output, json_file, data, params, out_file, inch_stdout>>
    /\ UNCHANGED hashVars

\* line 55: if args.output is None or empty, nothing is written.
SkipOutput ==
    /\ ipc = "output"
    /\ ~OutputRequested
    /\ ipc' = "print"
    /\ UNCHANGED <<args_output, json_file, data, params, requests_sent, response,
                   out_file, inch_stdout, exc>>
    /\ UNCHANGED hashVars

\* line 56: open(args.output, 'w') creates or empties the file.
OpenOutput ==
    /\ ipc = "output"
    /\ OutputRequested
    /\ IF Writable(args_output)
       THEN out_file' = Raw("") /\ ipc' = "dump" /\ UNCHANGED exc
       ELSE Raise("FileNotFoundError", "") /\ UNCHANGED out_file
    /\ UNCHANGED <<args_output, json_file, data, params, requests_sent, response,
                   inch_stdout>>
    /\ UNCHANGED hashVars

\* line 58: the exception response.json()['tx']['data'] raises, "" when none.
ExtractError(body) ==
    IF ~Parses(body) THEN "JSONDecodeError"
    ELSE IF SubscriptError(Loads(body), "tx") # ""
    THEN SubscriptError(Loads(body), "tx")
    ELSE SubscriptError(Subscript(Loads(body), "tx"), "data")

\* line 58: response.json()['tx']['data']
Extract(body) == Subscript(Subscript(Loads(body), "tx"), "data")

\* Mutant of DumpResponse: the payload alone is written.
DumpPayloadOnly ==
    /\ ipc = "dump"
    /\ IF ExtractError(response) # ""
       THEN Raise(ExtractError(response), "") /\ UNCHANGED out_file
       ELSE out_file' = Dump(Extract(response)) /\ ipc' = "print" /\ UNCHANGED exc
    /\ UNCHANGED <<args_output, json_file, data, params, requests_sent, response,
                   inch_stdout>>
    /\ UNCHANGED hashVars

\* Mutant of DumpResponse: the payload is extracted first, and the response
\* is written only if that succeeds.
DumpAfterExtract ==
    /\ ipc = "dump"
    /\ IF ExtractError(response) # ""
       THEN Raise(ExtractError(response), "") /\ UNCHANGED out_file
       ELSE out_file' = Dump(Loads(response)) /\ ipc' = "print" /\ UNCHANGED exc
    /\ UNCHANGED <<args_output, json_file, data, params, requests_sent, response,
                   inch_stdout>>
    /\ UNCHANGED hashVars

\* line 57: json.dump(response.json(), f)
DumpResponse ==
    /\ ipc = "dump"
    /\ IF ~Parses(response)
       THEN Raise("JSONDecodeError", "") /\ UNCHANGED out_file
       ELSE out_file' = Dump(Loads(response)) /\ ipc' = "print" /\ UNCHANGED exc
    /\ UNCHANGED <<args_output, json_file, data, params, requests_sent, response,
                   inch_stdout>>
    /\ UNCHANGED hashVars

\* line 58: print(response.json()['tx']['data'])
PrintPayload ==
    /\ ipc = "print"
    /\ IF ExtractError(response) # ""
       THEN Raise(ExtractError(response), "") /\ UNCHANGED inch_stdout
       ELSE /\ inch_stdout' = Append(inch_stdout, StrOf(Extract(response)))
            /\ ipc' = "exit"
            /\ UNCHANGED exc
    /\ UNCHANGED <<args_output, json_file, data, params, requests_sent, response,
                   out_file>>
    /\ UNCHANGED hashVars

NextInch ==
    \/ LoadJson
    \/ Validate
    \/ BuildRequest
    \/ Get
    \/ SkipOutput
    \/ OpenOutput
    \/ DumpResponse
    \/ PrintPayload

SpecInch == InitInch /\ [][NextInch]_vars

\* ================================================================ claims
\* ------------------------------------------- src/error_hashes.py (Spec)
\* The number of loop bodies that have run to their end.
Completed == IF pc \in {"for", "exit", "raise"} THEN it ELSE it - 1

\* line is the report's line for declaration d: d, then ": 0x", then 8
\* characters.
IsLineFor(line, d) ==
    /\ Len(line) = Len(d) + 4 + 2 * SelectorBytes
    /\ SubSeq(line, 1, Len(d)) = d

\* The last 8 characters of a line.
LineSelector(line) ==
    IF Len(line) >= 2 * SelectorBytes
    THEN SubSeq(line, Len(line) - 2 * SelectorBytes + 1, Len(line))
    ELSE line

\* The selector a run of the loop body on d alone, in a fresh process, reports.
FreshSelector(d) == Hex(SliceTo(keccak(EncodeText(d)), SelectorBytes))

IsLowerHex(c) == c \in (48..57) \cup (97..102)
HexValue(c) == IF c <= 57 THEN c - 48 ELSE c - 87

\* C1: the report has one entry per declaration taken from the list, the i-th
\* entry is the one of the i-th declaration, and when the loop ends the report
\* is as long as the list: nothing is skipped, nothing reordered.
C1_OrderPreserved ==
    /\ Len(stdout) <= Len(error_signatures)
    /\ Len(stdout) = Completed
    /\ \A i \in 1..Len(stdout) : IsLineFor(stdout[i], error_signatures[i])
    /\ pc = "exit" => Len(stdout) = Len(error_signatures)

C1_Witness ==
    /\ pc = "exit"
    /\ Len(error_signatures) = MaxSigs
    /\ error_signatures[1] # error_signatures[2]
    /\ \A i \in 1..MaxSigs : IsLineFor(stdout[i], error_signatures[i])

\* C3: the derivation is total and of fixed length: the script never ends in
\* an error, every declaration taken from the list (the empty one included)
\* gets a 32-byte hash whose first 4 bytes make a selector of 8 hexadecimal
\* digits, and at the end every declaration has been derived.
C3_TotalFixedLength ==
    /\ pc # "raise"
    /\ pc \in {"slice", "print"} =>
          /\ Len(hash_bytes) = HashWidth
          /\ Len(SliceTo(hash_bytes, SelectorBytes)) = 4
    /\ pc = "print" => Len(selector) = 2 * 4
    /\ \A i \in 1..Len(stdout) : Len(LineSelector(stdout[i])) = 2 * 4
    /\ pc = "exit" => Completed = Len(error_signatures)

C3_Witness ==
    /\ pc = "print"
    /\ error_signatures[it] = <<>>
    /\ signature = <<>>
    /\ Len(selector) = 8

\* C4: the selector reported for a declaration depends on the declaration
\* alone: it is the selector a fresh run on that declaration alone reports,
\* whatever was processed before it, so two occurrences of a declaration (in
\* one run or in two) carry the same selector.
C4_Deterministic ==
    /\ Len(stdout) <= Len(error_signatures)
    /\ \A i \in 1..Len(stdout) :
          LineSelector(stdout[i]) = FreshSelector(error_signatures[i])
    /\ \A i, j \in 1..Len(stdout) :
          error_signatures[i] = error_signatures[j]
              => LineSelector(stdout[i]) = LineSelector(stdout[j])
    /\ pc = "print" => selector = FreshSelector(signature)

C4_Witness ==
    /\ Len(stdout) = MaxSigs
    /\ error_signatures[1] # error_signatures[MaxSigs]
    /\ LineSelector(stdout[MaxSigs]) = FreshSelector(error_signatures[MaxSigs])
    /\ LineSelector(stdout[1]) # LineSelector(stdout[MaxSigs])

\* C5: no filtering, no deduplication: when the loop has ended, the entries
\* for a declaration d stand exactly at the positions where d occurs in the
\* list (so there are as many as occurrences), and they are equal.
C5_NoDeduplication ==
    pc = "exit" =>
        \A d \in {error_signatures[k] : k \in 1..Len(error_signatures)} \cup Declarations :
            LET at == {i \in 1..Len(error_signatures) : error_signatures[i] = d}
            IN  /\ {i \in 1..Len(stdout) : IsLineFor(stdout[i], d)} = at
                /\ \A i, j \in at : stdout[i] = stdout[j]

C5_Witness ==
    /\ pc = "exit"
    /\ Len(error_signatures) >= 2
    /\ error_signatures[1] = error_signatures[2]
    /\ Len(stdout) >= 2
    /\ stdout[1] = stdout[2]

\* C8: an empty list yields an empty report and no error: the loop body is
\* never entered, nothing is printed, and the script ends normally.
C8_EmptyInput ==
    error_signatures = <<>> =>
        /\ pc \in {"for", "exit"}
        /\ stdout = <<>>
        /\ it = 0

C8_Witness ==
    /\ error_signatures = <<>>
    /\ pc = "exit"
    /\ stdout = <<>>

\* C9: every printed line is the declaration, ": 0x", and 8 lowercase
\* hexadecimal digits; digit pair j (high nibble first) is byte j of the hash
\* of the declaration's UTF-8 encoding, for j = 0..3; and only the loop body
\* prints: there are as many lines as completed loop bodies.
C9_LineFormat ==
    /\ Len(stdout) = Completed
    /\ Len(stdout) <= Len(error_signatures)
    /\ \A i \in 1..Len(stdout) :
          LET line == stdout[i]
              d == error_signatures[i]
              n == Len(d)
              h == keccak(EncodeText(d))
          IN  /\ Len(line) = n + 12
              /\ SubSeq(line, 1, n) = d
              /\ SubSeq(line, n + 1, n + 4) = <<58, 32, 48, 120>>
              /\ \A j \in 0..3 :
                    /\ IsLowerHex(line[n + 5 + 2 * j])
                    /\ IsLowerHex(line[n + 6 + 2 * j])
                    /\ 16 * HexValue(line[n + 5 + 2 * j]) + HexValue(line[n + 6 + 2 * j])
                          = h[j + 1]

C9_Witness ==
    /\ Len(stdout) >= 1
    /\ Len(error_signatures[1]) = MaxLen
    /\ \E j \in 1..8 : LineSelector(stdout[1])[j] >= 97
    /\ LineSelector(stdout[1]) # Hex(Reverse(SliceTo(keccak(EncodeText(error_signatures[1])), 4)))

\* ------------------------------------------- src/router/inch.py (SpecInch)
\* The request is empty or lacks a required field: it is no object, or an
\* object without one of the five keys.
LacksRequiredField(v) ==
    \/ v.kind # "object"
    \/ \E k \in FieldSet : ~\E i \in v.items : i[1] = <<k>>

\* The leaves at tx.data of a JSON value.
TxData(v) == {i[2] : i \in {x \in v.items : x[1] = <<"tx", "data">>}}

\* C2: when the request file holds a request that is empty or lacks one of
\* src, dst, amount, from, slippage, no GET is ever issued and the output file
\* is never written; the script does not end normally, and an object that
\* lacks a field is refused by the validation's ValueError.
C2_RejectedBeforeNetwork ==
    (Parses(json_file) /\ LacksRequiredField(Loads(json_file))) =>
        /\ requests_sent = <<>>
        /\ response = Absent
        /\ out_file = Absent
        /\ ipc \notin {"get", "output", "dump", "print", "exit"}
        /\ (ipc = "error" /\ Loads(json_file).kind = "object") => exc[1] = "ValueError"

C2_Witness ==
    /\ ipc = "error"
    /\ exc = <<"ValueError", "slippage">>
    /\ Loads(json_file) = Obj({<<<<k>>, FieldValue[k]>> : k \in FieldSet \ {"slippage"}})
    /\ requests_sent = <<>>

\* C6: at most one GET is issued in a run; a request that fails ends the
\* script with that exception, with one request sent, nothing printed and
\* nothing written.
C6_SingleGet ==
    /\ Len(requests_sent) <= 1
    /\ exc[1] = "ConnectionError" =>
          /\ ipc = "error"
          /\ Len(requests_sent) = 1
          /\ response = Absent
          /\ inch_stdout = <<>>
          /\ out_file = Absent

C6_Witness ==
    /\ ipc = "error"
    /\ exc[1] = "ConnectionError"
    /\ Len(requests_sent) = 1

\* C7, as claimed: after a run that ends normally with an output file
\* requested, the file's content is the printed payload.
C7_FileIsPayload ==
    (ipc = "exit" /\ OutputRequested) =>
        /\ Len(inch_stdout) = 1
        /\ out_file \in {Raw(inch_stdout[1]), Dump(Scalar(inch_stdout[1]))}

\* C7, amended: a run that ends normally printed exactly the leaf at tx.data
\* of the response's JSON; with an output file requested, the file holds the
\* whole JSON value of the response in json.dump's layout (tx.data being one
\* field of it), and without one nothing is written.
C7_FileIsFullResponse ==
    ipc = "exit" =>
        /\ Parses(response)
        /\ \E p \in TxData(Loads(response)) : inch_stdout = <<p>>
        /\ OutputRequested =>
              /\ out_file.json
              /\ out_file.fmt = "default"
              /\ out_file.value = Loads(response)
              /\ TxData(out_file.value) = {inch_stdout[1]}
        /\ ~OutputRequested => out_file = Absent

C7_Witness ==
    /\ ipc = "exit"
    /\ OutputRequested
    /\ response.fmt = "compact"
    /\ out_file # response
    /\ out_file.value = response.value
    /\ inch_stdout = <<"0xaa">>

\* C10: the output file is written only after the GET has returned, and
\* before the payload is extracted: once a payload is printed with an output
\* file requested, the file already holds the response; and when the response
\* is JSON without tx.data (and the file could be opened), the script ends in
\* an error with nothing printed while the file holds the whole response.
C10_FileWrittenBeforeExtraction ==
    /\ out_file # Absent => (Len(requests_sent) = 1 /\ response # Absent)
    /\ (ipc \in {"print", "exit"} /\ OutputRequested) => out_file = Dump(Loads(response))
    /\ (inch_stdout # <<>> /\ OutputRequested) => out_file = Dump(Loads(response))
    /\ (/\ ipc = "error"
        /\ OutputRequested
        /\ Writable(args_output)
        /\ Parses(response)
        /\ TxData(Loads(response)) = {})
          => /\ out_file = Dump(Loads(response))
             /\ inch_stdout = <<>>
             /\ exc[1] \in {"KeyError", "TypeError"}

C10_Witness ==
    /\ ipc = "error"
    /\ exc[1] = "KeyError"
    /\ OutputRequested
    /\ Loads(response) = Obj({<<<<"error">>, "Bad Request">>, <<<<"statusCode">>, "400">>})
    /\ out_file = Dump(Loads(response))
    /\ inch_stdout = <<>>

====
